---- MODULE Spec2Model ----
(***************************************************************************)
(* Model of backend/NLP/analysis.py: comments_sentiment_analysis and its   *)
(* two scorers, vader_sentiment_analysis and                               *)
(* huggingface_sentiment_analysis.                                         *)
(*                                                                         *)
(* One call of comments_sentiment_analysis is a behaviour: Init is the     *)
(* state at line 106 (results = {}), one action per loop iteration of the  *)
(* selected branch, and one action for the final sort and return.          *)
(*                                                                         *)
(* Python floats are modelled by a binary floating-point format with       *)
(* Precision significand bits, gradual underflow and round-to-nearest,     *)
(* ties-to-even; the unit of the integers below is the smallest subnormal. *)
(* The score 1.0 is the integer One.                                       *)
(***************************************************************************)
EXTENDS Integers, Sequences, FiniteSets, TLC

VARIABLES
    comments,          \* the argument: insertion-ordered items <<[key, value]>>
    method,            \* the argument: "vader", "ml" or anything else
    pc,                \* "loop", "done" (returned) or "error" (raised)
    idx,               \* position of the items() iterator
    results,           \* the local dict results, as insertion-ordered items
    key,               \* loop variable key
    value,             \* loop variable value
    sentiment_scores,  \* local sentiment_scores of the last scorer call
    classified,        \* what the last huggingface call handed to the pipeline
    calls,             \* number of invocations of each scorer so far
    returned,          \* the returned mapping (items in order), once pc = "done"
    raised             \* the exception that left the function, once pc = "error"

vars == <<comments, method, pc, idx, results, key, value, sentiment_scores,
          classified, calls, returned, raised>>

----------------------------------------------------------------------------
(* Bounds of the model *)

\* total number of comments in the input mapping
MaxComments == 3

\* number of groups in the input mapping
MaxGroups == 2

\* significand bits of the floating-point format (53 in CPython)
Precision == 3

----------------------------------------------------------------------------
(* Floating point *)

Abs(x) == IF x < 0 THEN -x ELSE x

RECURSIVE Pow2(_)
Pow2(n) == IF n = 0 THEN 1 ELSE 2 * Pow2(n - 1)

\* the score 1.0
One == Pow2(Precision)

\* the spacing of the format at the rational a/den (a >= 0, den > 0): the
\* least power of two u with a/den < 2^Precision * u
RECURSIVE Spacing(_, _, _)
Spacing(a, den, u) ==
    IF a < Pow2(Precision) * u * den THEN u ELSE Spacing(a, den, 2 * u)

\* the float nearest to the rational num/den (den > 0), ties to even
RoundNearestEven(num, den) ==
    LET a == Abs(num)
        u == Spacing(a, den, 1)
        m == a \div (den * u)
        r == a % (den * u)
        up == 2 * r > den * u \/ (2 * r = den * u /\ m % 2 = 1)
        f == (IF up THEN m + 1 ELSE m) * u
    IN  IF num < 0 THEN -f ELSE f

FloatAdd(a, b) == RoundNearestEven(a + b, 1)

FloatDiv(a, n) == RoundNearestEven(a, n)

----------------------------------------------------------------------------
(* Inputs and the two external libraries *)

\* group keys, as strings of code points ("1", "10", "2")
Keys == {<<1>>, <<1, 0>>, <<2>>}

\* the comment texts of the model
Comments == {"good", "fine", "bad", "long", "huge"}

\* "vader", "ml" and one value that is neither
Methods == {"vader", "ml", "unknown"}

\* the limit of lines 58 and 60
MaxTokens == 510

\* len(sentiment_pipeline.tokenizer.tokenize(comment))
TokenCount(comment) ==
    CASE comment = "good" -> 1
      [] comment = "fine" -> 2
      [] comment = "bad"  -> MaxTokens - 1
      [] comment = "long" -> MaxTokens
      [] comment = "huge" -> MaxTokens + 1

\* sentiment_pipeline.tokenizer.tokenize(comment): the tokens of the comment
Tokenize(comment) ==
    [j \in 1..TokenCount(comment) |-> [of |-> comment, pos |-> j]]

\* sentiment_pipeline.tokenizer.convert_tokens_to_string(tokens): the text
\* is determined by the tokens it is made of
ConvertTokensToString(tokens) ==
    [of |-> IF tokens = <<>> THEN "" ELSE tokens[1].of, ntok |-> Len(tokens)]

\* analyzer.polarity_scores(comment)["compound"], a float in [-1, 1]
Compound(comment) ==
    CASE comment = "good" -> One - 2
      [] comment = "fine" -> One - 2
      [] comment = "bad"  -> 2 - One
      [] comment = "long" -> 3
      [] comment = "huge" -> 1 - One

\* sentiment_pipeline(text): a list holding one {"label", "score"}; a text
\* that is only a prefix of a comment is another text, with another result
Pipeline(text) ==
    IF text.of \in Comments /\ text.ntok = TokenCount(text.of)
    THEN CASE text.of = "good" -> <<[label |-> "POSITIVE", score |-> One - 2]>>
           [] text.of = "fine" -> <<[label |-> "POSITIVE", score |-> One - 2]>>
           [] text.of = "bad"  -> <<[label |-> "NEGATIVE", score |-> One - 1]>>
           [] text.of = "long" -> <<[label |-> "POSITIVE", score |-> 5]>>
           [] text.of = "huge" -> <<[label |-> "NEGATIVE", score |-> 4]>>
    ELSE <<[label |-> "NEGATIVE", score |-> 1]>>

----------------------------------------------------------------------------
(* vader_sentiment_analysis, lines 7-31 *)

\* variant: the length gate of the other scorer applied here too
RECURSIVE VaderLoop_SkipLong(_, _, _)
VaderLoop_SkipLong(cs, i, scores) ==
    IF i > Len(cs) THEN scores
    ELSE VaderLoop_SkipLong(cs, i + 1,
             IF TokenCount(cs[i]) < MaxTokens
             THEN Append(scores, Compound(cs[i])) ELSE scores)

RECURSIVE VaderLoop(_, _, _)
VaderLoop(cs, i, scores) ==
    IF i > Len(cs) THEN scores
    ELSE VaderLoop(cs, i + 1, Append(scores, Compound(cs[i])))

vader_sentiment_analysis(cs) == VaderLoop(cs, 1, <<>>)

----------------------------------------------------------------------------
(* huggingface_sentiment_analysis, lines 35-81 *)

\* variant: <= instead of <
PassesLengthCheck_AtMost(tokenized_comment) ==
    Len(tokenized_comment) <= MaxTokens

\* variant: no gate, the truncation alone limits the length
PassesLengthCheck_Always(tokenized_comment) == TRUE

\* variant: the gate at the 512 tokens the comment of line 59 speaks of
PassesLengthCheck_Below512(tokenized_comment) ==
    Len(tokenized_comment) < MaxTokens + 2

\* line 58
PassesLengthCheck(tokenized_comment) == Len(tokenized_comment) < MaxTokens

\* line 60: tokenized_comment[:510]
Truncate(tokenized_comment) ==
    SubSeq(tokenized_comment, 1,
           IF Len(tokenized_comment) < MaxTokens
           THEN Len(tokenized_comment) ELSE MaxTokens)

\* lines 54-69: one record per call of the pipeline, in call order
RECURSIVE ClassifierLoop(_, _, _)
ClassifierLoop(cs, i, runs) ==
    IF i > Len(cs) THEN runs
    ELSE LET tokenized_comment == Tokenize(cs[i])
         IN  IF PassesLengthCheck(tokenized_comment)
             THEN LET truncated == Truncate(tokenized_comment)
                      truncated_comment == ConvertTokensToString(truncated)
                  IN  ClassifierLoop(cs, i + 1, Append(runs,
                          [comment   |-> cs[i],
                           ntokens   |-> Len(tokenized_comment),
                           kept      |-> Len(truncated),
                           whole     |-> truncated = tokenized_comment,
                           sentiment |-> Pipeline(truncated_comment)]))
             ELSE ClassifierLoop(cs, i + 1, runs)

\* lines 72-79
SignedScore(sentiment) ==
    IF sentiment[1].label = "POSITIVE"
    THEN sentiment[1].score ELSE -sentiment[1].score

ClassifierRuns(cs) == ClassifierLoop(cs, 1, <<>>)

huggingface_sentiment_analysis(cs) ==
    LET runs == ClassifierRuns(cs)
    IN  [k \in 1..Len(runs) |-> SignedScore(runs[k].sentiment)]

----------------------------------------------------------------------------
(* Python built-ins used by comments_sentiment_analysis *)

\* keys compare as Python strings do: by code point, a proper prefix first
RECURSIVE StrLess(_, _)
StrLess(a, b) ==
    IF b = <<>> THEN FALSE
    ELSE IF a = <<>> THEN TRUE
    ELSE IF Head(a) # Head(b) THEN Head(a) < Head(b)
    ELSE StrLess(Tail(a), Tail(b))

\* sum(xs): float additions from the left, starting at 0 (CPython before
\* 3.12; later versions add a compensation term, and round as well)
RECURSIVE SumLoop(_, _, _)
SumLoop(xs, i, total) ==
    IF i > Len(xs) THEN total
    ELSE SumLoop(xs, i + 1, FloatAdd(total, xs[i]))

\* variant: the first item counted twice
PySum_FirstTwice(xs) == SumLoop(xs, 1, xs[1])

PySum(xs) == SumLoop(xs, 1, 0)

\* max(xs), xs not empty: the first of the largest items
RECURSIVE MaxLoop(_, _, _)
MaxLoop(xs, i, best) ==
    IF i > Len(xs) THEN best
    ELSE MaxLoop(xs, i + 1, IF xs[i] > best THEN xs[i] ELSE best)

PyMax(xs) == MaxLoop(xs, 2, xs[1])

\* min(xs), xs not empty: the first of the smallest items
RECURSIVE MinLoop(_, _, _)
MinLoop(xs, i, best) ==
    IF i > Len(xs) THEN best
    ELSE MinLoop(xs, i + 1, IF xs[i] < best THEN xs[i] ELSE best)

PyMin(xs) == MinLoop(xs, 2, xs[1])

\* xs.index(x), counted from 1; 0 when x is not in xs (ValueError)
RECURSIVE IndexLoop(_, _, _)
IndexLoop(xs, x, i) ==
    IF i > Len(xs) THEN 0
    ELSE IF xs[i] = x THEN i
    ELSE IndexLoop(xs, x, i + 1)

\* variant: the last occurrence instead of the first
PyIndex_Last(xs, x) ==
    IF \E i \in 1..Len(xs) : xs[i] = x
    THEN CHOOSE i \in 1..Len(xs) :
             xs[i] = x /\ \A j \in (i + 1)..Len(xs) : xs[j] # x
    ELSE 0

PyIndex(xs, x) == IndexLoop(xs, x, 1)

\* items[k] = v on a dict: a present key keeps its place, a new one goes last
DictSet(items, k, v) ==
    IF \E j \in 1..Len(items) : items[j].key = k
    THEN [j \in 1..Len(items) |->
             IF items[j].key = k THEN [key |-> k, summary |-> v] ELSE items[j]]
    ELSE Append(items, [key |-> k, summary |-> v])

\* sorted(items, key=lambda x: x[0]): stable, ascending
RECURSIVE InsertSorted(_, _)
InsertSorted(sorted, item) ==
    IF sorted = <<>> THEN <<item>>
    ELSE IF StrLess(item.key, Head(sorted).key)
         THEN <<item>> \o sorted
         ELSE <<Head(sorted)>> \o InsertSorted(Tail(sorted), item)

RECURSIVE SortLoop(_, _, _)
SortLoop(items, i, sorted) ==
    IF i > Len(items) THEN sorted
    ELSE SortLoop(items, i + 1, InsertSorted(sorted, items[i]))

\* variant: the items left in insertion order
PySorted_AsInserted(items) == items

PySorted(items) == SortLoop(items, 1, <<>>)

----------------------------------------------------------------------------
(* comments_sentiment_analysis, lines 84-166 *)

\* variant: the second branch taken as the default
Branch_ElseMl(m) == IF m = "vader" THEN "vader" ELSE "ml"

\* lines 108 and 136: the branch the method selects
Branch(m) ==
    IF m = "vader" THEN "vader" ELSE IF m = "ml" THEN "ml" ELSE "none"

\* variant: a group of one comment skipped as well
IsEmptyGroup_UpToOne(v) == Len(v) <= 1

\* lines 111 and 139: not value
IsEmptyGroup(v) == v = <<>>

\* lines 118-134 and 145-161: the summary of a group from its comments v and
\* the scores the scorer returned for them, or the exception raised
Summarize(v, scores) ==
    IF Len(scores) = 0 THEN [exc |-> "ZeroDivisionError"]
    ELSE LET avg_sentiment == FloatDiv(PySum(scores), Len(scores))
             max_sentiment_score == PyMax(scores)
             max_at == PyIndex(scores, max_sentiment_score)
             min_sentiment_score == PyMin(scores)
             min_at == PyIndex(scores, min_sentiment_score)
         IN  IF max_at = 0 \/ min_at = 0 THEN [exc |-> "ValueError"]
             ELSE IF max_at > Len(v) \/ min_at > Len(v)
             THEN [exc |-> "IndexError"]
             ELSE [exc     |-> "none",
                   summary |->
                     [avg_sentiment         |-> avg_sentiment,
                      max_sentiment_comment |-> v[max_at],
                      max_sentiment         |-> max_sentiment_score,
                      min_sentiment_comment |-> v[min_at],
                      min_sentiment         |-> min_sentiment_score]]

\* the input mappings: ordered items with distinct keys
KeyOrders ==
    {o \in UNION {[1..n -> Keys] : n \in 0..MaxGroups} :
        \A a, b \in DOMAIN o : a # b => o[a] # o[b]}

CommentLists == UNION {[1..t -> Comments] : t \in 0..MaxComments}

Cuts(n, t) ==
    {c \in [0..n -> 0..t] :
        c[0] = 0 /\ c[n] = t /\ \A j \in 1..n : c[j - 1] <= c[j]}

Mapping(o, f, c) ==
    [j \in 1..Len(o) |->
        [key |-> o[j], value |-> SubSeq(f, c[j - 1] + 1, c[j])]]

\* line 106
Init ==
    /\ \E o \in KeyOrders, f \in CommentLists :
           \E c \in Cuts(Len(o), Len(f)) : comments = Mapping(o, f, c)
    /\ method \in Methods
    /\ pc = "loop"
    /\ idx = 1
    /\ results = <<>>
    /\ key = <<>>
    /\ value = <<>>
    /\ sentiment_scores = <<>>
    /\ classified = <<>>
    /\ calls = [vader |-> 0, ml |-> 0]
    /\ returned = <<>>
    /\ raised = "none"

\* lines 128-134 and 155-161, or the exception leaving the function
Store(out) ==
    IF out.exc = "none"
    THEN /\ results' = DictSet(results, key', out.summary)
         /\ pc' = "loop"
         /\ raised' = raised
    ELSE /\ results' = results
         /\ pc' = "error"
         /\ raised' = out.exc

\* lines 109-112: a group without comments is skipped
VaderEmpty ==
    /\ pc = "loop" /\ Branch(method) = "vader" /\ idx <= Len(comments)
    /\ IsEmptyGroup(comments[idx].value)
    /\ key' = comments[idx].key
    /\ value' = comments[idx].value
    /\ idx' = idx + 1
    /\ UNCHANGED <<comments, method, pc, results, sentiment_scores,
                   classified, calls, returned, raised>>

\* lines 109-134
VaderGroup ==
    /\ pc = "loop" /\ Branch(method) = "vader" /\ idx <= Len(comments)
    /\ ~IsEmptyGroup(comments[idx].value)
    /\ key' = comments[idx].key
    /\ value' = comments[idx].value
    /\ idx' = idx + 1
    /\ sentiment_scores' = vader_sentiment_analysis(value')
    /\ calls' = [calls EXCEPT !.vader = @ + 1]
    /\ Store(Summarize(value', sentiment_scores'))
    /\ UNCHANGED <<comments, method, classified, returned>>

\* lines 137-140
MlEmpty ==
    /\ pc = "loop" /\ Branch(method) = "ml" /\ idx <= Len(comments)
    /\ IsEmptyGroup(comments[idx].value)
    /\ key' = comments[idx].key
    /\ value' = comments[idx].value
    /\ idx' = idx + 1
    /\ UNCHANGED <<comments, method, pc, results, sentiment_scores,
                   classified, calls, returned, raised>>

\* lines 137-161
MlGroup ==
    /\ pc = "loop" /\ Branch(method) = "ml" /\ idx <= Len(comments)
    /\ ~IsEmptyGroup(comments[idx].value)
    /\ key' = comments[idx].key
    /\ value' = comments[idx].value
    /\ idx' = idx + 1
    /\ classified' = ClassifierRuns(value')
    /\ sentiment_scores' = huggingface_sentiment_analysis(value')
    /\ calls' = [calls EXCEPT !.ml = @ + 1]
    /\ Store(Summarize(value', sentiment_scores'))
    /\ UNCHANGED <<comments, method, returned>>

\* lines 163-166
Return ==
    /\ pc = "loop"
    /\ Branch(method) = "none" \/ idx > Len(comments)
    /\ returned' = PySorted(results)
    /\ pc' = "done"
    /\ UNCHANGED <<comments, method, idx, results, key, value,
                   sentiment_scores, classified, calls, raised>>

Next == VaderEmpty \/ VaderGroup \/ MlEmpty \/ MlGroup \/ Return

Spec == Init /\ [][Next]_vars

----------------------------------------------------------------------------
(* Vocabulary of the properties *)

\* the group under key has just been scored and its summary stored
JustStored == pc # "error" /\ idx > 1 /\ value # <<>>

\* the summary stored under the loop variable key
Entry ==
    results[CHOOSE j \in 1..Len(results) : results[j].key = key].summary

\* the score the ml scorer gives comment c when it scores it
MlScoreOf(c) ==
    SignedScore(Pipeline(ConvertTokensToString(Tokenize(c))))

\* the scorer selected by method gave comment c the score x
Scored(c, x) ==
    \/ method = "vader" /\ Compound(c) = x
    \/ method = "ml" /\ TokenCount(c) < MaxTokens /\ MlScoreOf(c) = x

IsShort(c) == TokenCount(c) < MaxTokens

\* a group that has comments, all of them of 510 tokens or more
AllLong(v) == v # <<>> /\ \A i \in 1..Len(v) : ~IsShort(v[i])

\* the exact sum of the first k scores
RECURSIVE ExactSum(_, _)
ExactSum(xs, k) == IF k = 0 THEN 0 ELSE ExactSum(xs, k - 1) + xs[k]

RECURSIVE IsFloat(_)
IsFloat(x) ==
    IF Abs(x) < Pow2(Precision) THEN TRUE
    ELSE x % 2 = 0 /\ IsFloat(x \div 2)

\* neither the additions nor the division of the average have to round
NoRounding(xs) ==
    /\ \A k \in 1..Len(xs) : IsFloat(ExactSum(xs, k))
    /\ ExactSum(xs, Len(xs)) % Len(xs) = 0

FirstAt(xs, x) ==
    CHOOSE i \in 1..Len(xs) : xs[i] = x /\ \A j \in 1..(i - 1) : xs[j] # x

InputKeysWithComments ==
    {comments[j].key : j \in {n \in 1..Len(comments) : comments[n].value # <<>>}}

ReturnedKeys == {returned[j].key : j \in 1..Len(returned)}

----------------------------------------------------------------------------
(* Properties *)

\* C1: in every stored summary the scorer's score of the comment reported as
\* max_sentiment_comment is max_sentiment, and the score of the comment
\* reported as min_sentiment_comment is min_sentiment, under either method.
C1_ReportedCommentHasReportedScore ==
    JustStored =>
        /\ Scored(Entry.max_sentiment_comment, Entry.max_sentiment)
        /\ Scored(Entry.min_sentiment_comment, Entry.min_sentiment)

\* C2: when the function returns under "vader" or "ml", the keys of the
\* result are exactly the input keys whose comment sequence is not empty,
\* each once.
C2_KeysAreNonEmptyGroups ==
    (pc = "done" /\ method \in {"vader", "ml"}) =>
        /\ ReturnedKeys = InputKeysWithComments
        /\ Len(returned) = Cardinality(InputKeysWithComments)

\* C2 witness: a return whose input had an empty and a non-empty group
C2_Witness ==
    /\ pc = "done" /\ method \in {"vader", "ml"}
    /\ Len(comments) = 2 /\ Len(returned) = 1
    /\ \E j \in 1..Len(comments) : comments[j].value = <<>>

\* C3: the returned mapping lists its keys in ascending lexicographic order.
C3_ReturnedKeysAscending ==
    pc = "done" =>
        \A j \in 1..(Len(returned) - 1) :
            StrLess(returned[j].key, returned[j + 1].key)

\* C3 witness: the input listed "2" before "10", the result lists "10" first
C3_Witness ==
    /\ pc = "done" /\ Len(returned) = 2
    /\ comments[1].key = <<2>> /\ comments[2].key = <<1, 0>>
    /\ returned[1].key = <<1, 0>>

\* C4: with a method that is neither "vader" nor "ml" no scorer is invoked,
\* nothing is raised and the mapping returned is empty.
C4_UnknownMethodReturnsEmpty ==
    method \notin {"vader", "ml"} =>
        /\ pc # "error" /\ raised = "none"
        /\ calls.vader = 0 /\ calls.ml = 0
        /\ (pc = "done" => returned = <<>>)

\* C4 witness: a return under another method for an input with comments
C4_Witness ==
    /\ method \notin {"vader", "ml"} /\ pc = "done"
    /\ \E j \in 1..Len(comments) : comments[j].value # <<>>

\* C5: in every stored summary avg_sentiment lies between min_sentiment and
\* max_sentiment inclusive.
C5_AvgWithinMinMax ==
    JustStored =>
        /\ Entry.min_sentiment <= Entry.avg_sentiment
        /\ Entry.avg_sentiment <= Entry.max_sentiment

\* C5 as amended: the exact sum of the group's n scores lies between
\* n * min_sentiment and n * max_sentiment, and avg_sentiment is the exact
\* mean, hence within [min_sentiment, max_sentiment], whenever the float
\* additions and the float division that compute it do not have to round.
C5_ExactMeanWithinMinMax ==
    JustStored =>
        LET n == Len(sentiment_scores)
            total == ExactSum(sentiment_scores, n)
        IN  /\ Entry.min_sentiment * n <= total
            /\ total <= Entry.max_sentiment * n
            /\ NoRounding(sentiment_scores) =>
                   /\ Entry.avg_sentiment * n = total
                   /\ Entry.min_sentiment <= Entry.avg_sentiment
                   /\ Entry.avg_sentiment <= Entry.max_sentiment

\* C5 witness: a group of different scores averaged without rounding
C5_Witness ==
    /\ JustStored /\ Len(sentiment_scores) = 3
    /\ NoRounding(sentiment_scores)
    /\ Entry.min_sentiment < Entry.avg_sentiment
    /\ Entry.avg_sentiment < Entry.max_sentiment

\* C6: vader_sentiment_analysis returns one score per comment, in input
\* order, the compound score of that comment, whatever its length, and each
\* score is in [-1, 1].
C6_VaderOneScorePerComment ==
    (calls.vader > 0 /\ value # <<>>) =>
        /\ Len(sentiment_scores) = Len(value)
        /\ \A i \in 1..Len(value) :
               /\ sentiment_scores[i] = Compound(value[i])
               /\ -One <= sentiment_scores[i] /\ sentiment_scores[i] <= One

\* C6 witness: a group holding a comment of more than 510 tokens and others
C6_Witness ==
    /\ calls.vader > 0 /\ Len(value) = 3
    /\ value[1] = "huge" /\ value[2] = "good" /\ value[3] = "bad"
    /\ Len(sentiment_scores) = 3

C9_FirstOccurrenceWins ==
    JustStored =>
        LET s == sentiment_scores
        IN  /\ \A i \in 1..Len(s) :
                   s[i] <= Entry.max_sentiment /\ Entry.min_sentiment <= s[i]
            /\ Entry.max_sentiment_comment = value[FirstAt(s, Entry.max_sentiment)]
            /\ Entry.min_sentiment_comment = value[FirstAt(s, Entry.min_sentiment)]
            /\ (\A i \in 1..Len(s) : s[i] = s[1]) =>
                   /\ Entry.max_sentiment_comment = value[1]
                   /\ Entry.min_sentiment_comment = value[1]

\* C9 witness: two different comments of equal score, with a lower one first
C9_Witness ==
    /\ JustStored /\ Len(value) = 3 /\ Len(sentiment_scores) = 3
    /\ sentiment_scores[2] = sentiment_scores[3]
    /\ sentiment_scores[1] < sentiment_scores[2]
    /\ value[2] # value[3]
    /\ Entry.max_sentiment_comment = value[2]

====
